---- MODULE Spec2Model ----
(***************************************************************************)
(* Frame extraction server (src/python/server2.py).                        *)
(*                                                                         *)
(* A request uploads a video; the server copies it to a temporary file,    *)
(* opens it with cv2.VideoCapture, reads the frames one by one, keeps some *)
(* of them, JPEG-encodes the kept ones, writes them into an in-memory zip  *)
(* together with a metadata.json entry and returns the zip.                *)
(*                                                                         *)
(*   extract_frames_streaming  ("stream" mode): keeps every                *)
(*       (skip_frames+1)-th frame, encodes batches of 50 on the shared     *)
(*       ThreadPoolExecutor.                                               *)
(*   extract_frames_fast       ("fast" mode): keeps every skip_factor-th   *)
(*       frame, at most max_frames of them, encodes inline.                *)
(*                                                                         *)
(* A decoded frame is modelled by its position in the video (the frame the *)
(* n-th successful cap.read() returns is frame n-1); the JPEG payload of   *)
(* an encoded frame records which frame it is the picture of.  The JPEG    *)
(* quality is passed through to the encoder and decides no control flow;   *)
(* it is left out.                                                         *)
(***************************************************************************)
EXTENDS Integers, Sequences, FiniteSets, TLC

VARIABLES
    req,        \* request id -> the state of that request's handler
    executor    \* the shared ThreadPoolExecutor: its work queue and workers

vars == <<req, executor>>

---------------------------------------------------------------------------
(* Bounds of the explored inputs *)

MaxFrames == 102        \* stream mode: videos of 0..MaxFrames frames
MaxSkip == 2            \* stream mode: skip_frames in 0..MaxSkip
MaxFastFrames == 12     \* fast mode: videos of 0..MaxFastFrames frames
MaxMaxFrames == 5       \* fast mode: max_frames in 1..MaxMaxFrames
MaxBadFrame == 2        \* the frame whose encoding fails is in 0..MaxBadFrame
MaxPoolTail == 1        \* concurrent requests: videos of 0..MaxPoolTail frames
                        \* and of batch_size..batch_size+MaxPoolTail frames

(* Program constants *)

batch_size == 50
max_workers == 4

Workers == 1..max_workers

FpsValues == {0, 10, 30}

---------------------------------------------------------------------------
(* Pure helpers *)

Max(a, b) == IF a >= b THEN a ELSE b

RECURSIVE GCD(_, _)
GCD(a, b) == IF b = 0 THEN a ELSE GCD(b, a % b)

\* The quotient a / b (b > 0, a >= 0) as a fraction in lowest terms.
Frac(a, b) ==
    LET g == GCD(a, b) IN [num |-> a \div g, den |-> b \div g]

RECURSIVE Digits(_)
Digits(n) == IF n < 10 THEN <<n>> ELSE Digits(n \div 10) \o <<n % 10>>

\* Python's format spec 0<w>d: the decimal digits of n, zero-padded on the
\* left to at least w digits.
ZeroPad(n, w) ==
    LET d == Digits(n)
        p == IF Len(d) >= w THEN 0 ELSE w - Len(d)
    IN  [i \in 1..(p + Len(d)) |-> IF i <= p THEN 0 ELSE d[i - p]]

\* f"frame_{idx:0<w>d}.jpg"
FrameName(idx, w) == [stem |-> "frame_", digits |-> ZeroPad(idx, w), ext |-> ".jpg"]

MetadataName == [stem |-> "metadata", digits |-> <<>>, ext |-> ".json"]

---------------------------------------------------------------------------
(* The capabilities of OpenCV the handlers use *)

\* cap.read(): the call made after `reads` earlier calls, on a video of which
\* `readable` frames can be decoded.
CapRead(reads, readable) ==
    IF reads < readable THEN [ret |-> TRUE, frame |-> reads]
                        ELSE [ret |-> FALSE, frame |-> -1]

\* cv2.imencode('.jpg', frame, params) -> (retval, buffer).  The buffer is
\* the picture of frame number `frame` of the video in.video.  For the frame
\* in.bad_frame the encoder fails, either by raising cv2.error or by
\* returning retval = False with a buffer that is no picture of the frame.
ImEncode(frame, in) ==
    IF frame = in.bad_frame /\ in.bad_kind = "raise"
        THEN [raised |-> TRUE, retval |-> FALSE,
              buffer |-> [video |-> in.video, jpeg_of |-> frame, valid |-> FALSE]]
    ELSE IF frame = in.bad_frame /\ in.bad_kind = "retval"
        THEN [raised |-> FALSE, retval |-> FALSE,
              buffer |-> [video |-> in.video, jpeg_of |-> frame, valid |-> FALSE]]
    ELSE [raised |-> FALSE, retval |-> TRUE,
          buffer |-> [video |-> in.video, jpeg_of |-> frame, valid |-> TRUE]]

---------------------------------------------------------------------------
(* process_frame_batch: runs on a worker thread of the executor *)

ProcessFrameBatchReversed(frames, in) ==
    [raised |-> \E i \in 1..Len(frames) : ImEncode(frames[i][2], in).raised,
     results |-> [i \in 1..Len(frames) |->
                    [filename |-> FrameName(frames[Len(frames) + 1 - i][1], 6),
                     data |-> ImEncode(frames[Len(frames) + 1 - i][2], in).buffer]]]

\* frames is a sequence of <<frame_idx, frame>>; the retval of imencode is
\* dropped (`_, buffer = ...`), an exception of imencode leaves the function.
ProcessFrameBatch(frames, in) ==
    [raised |-> \E i \in 1..Len(frames) : ImEncode(frames[i][2], in).raised,
     results |-> [i \in 1..Len(frames) |->
                    [filename |-> FrameName(frames[i][1], 6),
                     data |-> ImEncode(frames[i][2], in).buffer]]]

---------------------------------------------------------------------------
(* extract_frames_streaming: the decisions of the loop *)

KeepStreamOffByOne(frame_idx, skip_frames) ==
    IF skip_frames = 0 THEN TRUE ELSE frame_idx % skip_frames = 0

\* line 68
KeepStream(frame_idx, skip_frames) == frame_idx % (skip_frames + 1) = 0

\* line 73
BatchFull(frame_batch) == Len(frame_batch) >= batch_size

TailPendingDropped(frame_batch) == FALSE

\* line 89
TailPending(frame_batch) == frame_batch # <<>>

StreamMetadataCountsRead(s) ==
    [fps |-> s.fps, total_frames |-> s.total_frames,
     extracted_frames |-> s.frame_idx,
     width |-> s.width, height |-> s.height,
     skip_frames |-> s.in.skip_frames]

\* lines 98-105
StreamMetadata(s) ==
    [fps |-> s.fps, total_frames |-> s.total_frames,
     extracted_frames |-> s.extracted_count,
     width |-> s.width, height |-> s.height,
     skip_frames |-> s.in.skip_frames]

---------------------------------------------------------------------------
(* extract_frames_fast: the decisions of the loop *)

SkipFactorCeil(total_frames, max_frames) ==
    Max(1, (total_frames + max_frames - 1) \div max_frames)

\* line 183
SkipFactor(total_frames, max_frames) == Max(1, total_frames \div max_frames)

\* line 193, evaluated after cap.read() has returned
FastBreak(ret, extracted_count, max_frames) ==
    ~ret \/ extracted_count >= max_frames

TimestampOfKeptIndex(i, skip_factor, fps) ==
    IF fps > 0 THEN Frac(i, fps) ELSE [num |-> 0, den |-> 1]

\* line 219
Timestamp(i, skip_factor, fps) ==
    IF fps > 0 THEN Frac(i * skip_factor, fps) ELSE [num |-> 0, den |-> 1]

FastMetadataCountsRead(s) ==
    [fps |-> s.fps, total_frames |-> s.total_frames,
     extracted_frames |-> s.frame_idx,
     width |-> s.in.width, height |-> s.in.height,
     frames |-> [k \in 1..s.extracted_count |->
                    [frame_index |-> k - 1,
                     timestamp |-> Timestamp(k - 1, s.skip_factor, s.fps),
                     filename |-> FrameName(k - 1, 4)]]]

\* lines 210-224
FastMetadata(s) ==
    [fps |-> s.fps, total_frames |-> s.total_frames,
     extracted_frames |-> s.extracted_count,
     width |-> s.in.width, height |-> s.in.height,
     frames |-> [k \in 1..s.extracted_count |->
                    [frame_index |-> k - 1,
                     timestamp |-> Timestamp(k - 1, s.skip_factor, s.fps),
                     filename |-> FrameName(k - 1, 4)]]]

---------------------------------------------------------------------------
(* Requests *)

\* no frame of a video: a failed read's frame, an encoder that never fails
NoFrame == 0 - 1

Input(mode, T, j, fps, k, M, bad, kind, wok, opens) ==
    [mode |-> mode, video |-> 1,
     total_frames |-> T, readable |-> j, fps |-> fps,
     width |-> 640, height |-> 480,
     skip_frames |-> k, max_frames |-> M,
     bad_frame |-> bad, bad_kind |-> kind,
     write_ok |-> wok, opens |-> opens]

StreamInputs ==
    \* every frame the container announces can be decoded
    { Input("stream", T, T, f, k, 100, NoFrame, "none", TRUE, TRUE) :
        T \in 0..MaxFrames, f \in FpsValues, k \in 0..MaxSkip }
    \cup
    \* a read fails after j < total_frames frames
    { Input("stream", MaxFrames, j, 10, k, 100, NoFrame, "none", TRUE, TRUE) :
        j \in 0..(MaxFrames - 1), k \in 0..MaxSkip }
    \cup
    \* the encoder fails on one frame
    { Input("stream", T, T, 10, k, 100, b, kind, TRUE, TRUE) :
        T \in {MaxBadFrame + 1, batch_size + 1}, k \in 0..MaxSkip,
        b \in 0..MaxBadFrame, kind \in {"raise", "retval"} }
    \cup
    \* the video cannot be opened; the temporary copy cannot be written
    { Input("stream", 0, 0, 0, 0, 100, NoFrame, "none", wo[1], wo[2]) :
        wo \in {<<TRUE, FALSE>>, <<FALSE, FALSE>>} }

FastInputs ==
    { Input("fast", T, T, f, 0, M, NoFrame, "none", TRUE, TRUE) :
        T \in 0..MaxFastFrames, f \in FpsValues, M \in 1..MaxMaxFrames }
    \cup
    { Input("fast", 1000, 1000, 30, 0, 100, NoFrame, "none", TRUE, TRUE) }
    \cup
    { Input("fast", tj[1], tj[2], 10, 0, M, NoFrame, "none", TRUE, TRUE) :
        tj \in { x \in (1..MaxFastFrames) \X (0..MaxFastFrames) : x[2] < x[1] },
        M \in 1..MaxMaxFrames }
    \cup
    { Input("fast", MaxBadFrame + 2, MaxBadFrame + 2, 10, 0, M, b, kind, TRUE, TRUE) :
        M \in 1..MaxMaxFrames, b \in 0..MaxBadFrame, kind \in {"raise", "retval"} }
    \cup
    { Input("fast", 0, 0, 0, 0, 100, NoFrame, "none", wo[1], wo[2]) :
        wo \in {<<TRUE, FALSE>>, <<FALSE, FALSE>>} }

Inputs == StreamInputs \cup FastInputs

\* The handler of a request that has just been entered.
NewRequest(in) ==
    [in |-> in, pc |-> "temp", temp |-> "none",
     fps |-> 0, total_frames |-> 0, width |-> 0, height |-> 0,
     reads |-> 0, frame_idx |-> 0, extracted_count |-> 0,
     skip_factor |-> 0,
     frame_batch |-> <<>>, future |-> "none", processed_frames |-> <<>>,
     zipf |-> <<>>, zip_closed |-> FALSE,
     pending |-> "none", result |-> "none"]

NoTask == [r |-> 0, frames |-> <<>>]

Init ==
    /\ \E in \in Inputs : req = [r \in {1} |-> NewRequest(in)]
    /\ executor = [queue |-> <<>>, running |-> [w \in Workers |-> NoTask]]

Set(r, s) == req' = [req EXCEPT ![r] = s]

\* loop.run_in_executor(executor, process_frame_batch, frame_batch, quality)
Submit(r, frames) ==
    executor' = [executor EXCEPT !.queue = Append(@, [r |-> r, frames |-> frames])]

---------------------------------------------------------------------------
(* extract_frames_streaming *)

\* lines 39-41: the temporary file is created (delete=False) and written
\* before the try block is entered.
StreamWriteTemp(r) ==
    LET s == req[r] IN
    /\ s.in.mode = "stream" /\ s.pc = "temp"
    /\ IF s.in.write_ok
          THEN Set(r, [s EXCEPT !.temp = "exists", !.pc = "open"])
          ELSE Set(r, [s EXCEPT !.temp = "exists", !.pc = "done", !.result = "error"])
    /\ UNCHANGED executor

\* lines 44-55
StreamOpen(r) ==
    LET s == req[r] IN
    /\ s.in.mode = "stream" /\ s.pc = "open"
    /\ IF ~s.in.opens
          THEN Set(r, [s EXCEPT !.pc = "finally", !.pending = "http400"])
          ELSE Set(r, [s EXCEPT !.fps = s.in.fps, !.total_frames = s.in.total_frames,
                                !.width = s.in.width, !.height = s.in.height,
                                !.pc = "loop"])
    /\ UNCHANGED executor

\* lines 62-78 and 86: one pass of the loop, up to the await when the batch
\* is full
StreamReadFrame(r) ==
    LET s == req[r]
        rd == CapRead(s.reads, s.in.readable)
        batch == Append(s.frame_batch, <<s.extracted_count, rd.frame>>)
    IN
    /\ s.in.mode = "stream" /\ s.pc = "loop"
    /\ IF ~rd.ret
          THEN /\ Set(r, [s EXCEPT !.reads = @ + 1, !.pc = "flush"])
               /\ UNCHANGED executor
       ELSE IF ~KeepStream(s.frame_idx, s.in.skip_frames)
          THEN /\ Set(r, [s EXCEPT !.reads = @ + 1, !.frame_idx = @ + 1])
               /\ UNCHANGED executor
       ELSE IF BatchFull(batch)
          THEN /\ Set(r, [s EXCEPT !.reads = @ + 1, !.frame_batch = batch,
                                   !.extracted_count = @ + 1,
                                   !.future = "pending", !.pc = "await"])
               /\ Submit(r, batch)
          ELSE /\ Set(r, [s EXCEPT !.reads = @ + 1, !.frame_batch = batch,
                                   !.extracted_count = @ + 1,
                                   !.frame_idx = @ + 1])
               /\ UNCHANGED executor

\* lines 76-86: the await returns, or raises what process_frame_batch raised
StreamResume(r) ==
    LET s == req[r] IN
    /\ s.in.mode = "stream" /\ s.pc = "await"
    /\ s.future \in {"done", "raised"}
    /\ IF s.future = "raised"
          THEN Set(r, [s EXCEPT !.future = "none", !.zip_closed = TRUE,
                                !.pc = "finally", !.pending = "error"])
          ELSE Set(r, [s EXCEPT !.future = "none",
                                !.zipf = @ \o s.processed_frames,
                                !.frame_batch = <<>>,
                                !.frame_idx = @ + 1,
                                !.pc = "loop"])
    /\ UNCHANGED executor

\* lines 89-93
StreamFlush(r) ==
    LET s == req[r] IN
    /\ s.in.mode = "stream" /\ s.pc = "flush"
    /\ IF TailPending(s.frame_batch)
          THEN /\ Set(r, [s EXCEPT !.future = "pending", !.pc = "await_flush"])
               /\ Submit(r, s.frame_batch)
          ELSE /\ Set(r, [s EXCEPT !.pc = "metadata"])
               /\ UNCHANGED executor

\* lines 91-95
StreamFlushResume(r) ==
    LET s == req[r] IN
    /\ s.in.mode = "stream" /\ s.pc = "await_flush"
    /\ s.future \in {"done", "raised"}
    /\ IF s.future = "raised"
          THEN Set(r, [s EXCEPT !.future = "none", !.zip_closed = TRUE,
                                !.pc = "finally", !.pending = "error"])
          ELSE Set(r, [s EXCEPT !.future = "none",
                                !.zipf = @ \o s.processed_frames,
                                !.pc = "metadata"])
    /\ UNCHANGED executor

\* lines 98-110: metadata.json is written, the zip is closed, cap released
StreamWriteMetadata(r) ==
    LET s == req[r] IN
    /\ s.in.mode = "stream" /\ s.pc = "metadata"
    /\ Set(r, [s EXCEPT !.zipf = Append(@, [filename |-> MetadataName,
                                            data |-> StreamMetadata(s)]),
                        !.zip_closed = TRUE,
                        !.pc = "finally", !.pending = "return"])
    /\ UNCHANGED executor

\* lines 112-121: the temporary file is unlinked; then the buffer is
\* returned, or the pending exception leaves the handler
StreamFinally(r) ==
    LET s == req[r] IN
    /\ s.in.mode = "stream" /\ s.pc = "finally"
    /\ Set(r, [s EXCEPT !.temp = "removed", !.pc = "done", !.pending = "none",
                        !.result = IF s.pending = "return" THEN "archive" ELSE s.pending])
    /\ UNCHANGED executor

---------------------------------------------------------------------------
(* The executor's worker threads *)

\* an idle worker takes the oldest queued task
WorkerTake(w) ==
    /\ executor.running[w] = NoTask
    /\ executor.queue # <<>>
    /\ executor' = [executor EXCEPT !.running[w] = Head(executor.queue),
                                    !.queue = Tail(@)]
    /\ UNCHANGED req

\* a worker that completes the future of the longest-known waiting request
\* instead of the future of the task it ran
WorkerFinishSharedResult(w) ==
    LET t == executor.running[w]
        out == ProcessFrameBatch(t.frames, req[t.r].in)
        waiting == {r \in DOMAIN req : req[r].future = "pending"}
        to == CHOOSE r \in waiting : \A q \in waiting : r <= q
    IN
    /\ t # NoTask
    /\ executor' = [executor EXCEPT !.running[w] = NoTask]
    /\ IF out.raised
          THEN Set(to, [req[to] EXCEPT !.future = "raised"])
          ELSE Set(to, [req[to] EXCEPT !.future = "done",
                                       !.processed_frames = out.results])

\* the worker runs process_frame_batch and completes the future
WorkerFinish(w) ==
    LET t == executor.running[w]
        out == ProcessFrameBatch(t.frames, req[t.r].in)
    IN
    /\ t # NoTask
    /\ executor' = [executor EXCEPT !.running[w] = NoTask]
    /\ IF out.raised
          THEN Set(t.r, [req[t.r] EXCEPT !.future = "raised"])
          ELSE Set(t.r, [req[t.r] EXCEPT !.future = "done",
                                         !.processed_frames = out.results])

---------------------------------------------------------------------------
(* extract_frames_fast *)

\* lines 170-172
FastWriteTemp(r) ==
    LET s == req[r] IN
    /\ s.in.mode = "fast" /\ s.pc = "temp"
    /\ IF s.in.write_ok
          THEN Set(r, [s EXCEPT !.temp = "exists", !.pc = "open"])
          ELSE Set(r, [s EXCEPT !.temp = "exists", !.pc = "done", !.result = "error"])
    /\ UNCHANGED executor

\* lines 175-189
FastOpen(r) ==
    LET s == req[r] IN
    /\ s.in.mode = "fast" /\ s.pc = "open"
    /\ IF ~s.in.opens
          THEN Set(r, [s EXCEPT !.pc = "finally", !.pending = "http400"])
          ELSE Set(r, [s EXCEPT !.fps = s.in.fps, !.total_frames = s.in.total_frames,
                                !.skip_factor = SkipFactor(s.in.total_frames,
                                                           s.in.max_frames),
                                !.pc = "loop"])
    /\ UNCHANGED executor

\* lines 191-207: one pass of the loop
FastReadFrame(r) ==
    LET s == req[r]
        rd == CapRead(s.reads, s.in.readable)
        enc == ImEncode(rd.frame, s.in)
    IN
    /\ s.in.mode = "fast" /\ s.pc = "loop"
    /\ IF FastBreak(rd.ret, s.extracted_count, s.in.max_frames)
          THEN Set(r, [s EXCEPT !.reads = @ + 1, !.pc = "metadata"])
       ELSE IF s.frame_idx % s.skip_factor # 0
          THEN Set(r, [s EXCEPT !.reads = @ + 1, !.frame_idx = @ + 1])
       ELSE IF enc.raised
          THEN Set(r, [s EXCEPT !.reads = @ + 1, !.zip_closed = TRUE,
                                !.pc = "finally", !.pending = "error"])
          ELSE Set(r, [s EXCEPT !.reads = @ + 1,
                                !.zipf = Append(@, [filename |-> FrameName(s.extracted_count, 4),
                                                    data |-> enc.buffer]),
                                !.extracted_count = @ + 1,
                                !.frame_idx = @ + 1])
    /\ UNCHANGED executor

\* lines 210-227
FastWriteMetadata(r) ==
    LET s == req[r] IN
    /\ s.in.mode = "fast" /\ s.pc = "metadata"
    /\ Set(r, [s EXCEPT !.zipf = Append(@, [filename |-> MetadataName,
                                            data |-> FastMetadata(s)]),
                        !.zip_closed = TRUE,
                        !.pc = "finally", !.pending = "return"])
    /\ UNCHANGED executor

\* lines 229-250
FastFinally(r) ==
    LET s == req[r] IN
    /\ s.in.mode = "fast" /\ s.pc = "finally"
    /\ Set(r, [s EXCEPT !.temp = "removed", !.pc = "done", !.pending = "none",
                        !.result = IF s.pending = "return" THEN "archive" ELSE s.pending])
    /\ UNCHANGED executor

---------------------------------------------------------------------------

Next ==
    \/ \E r \in DOMAIN req : StreamWriteTemp(r)
    \/ \E r \in DOMAIN req : StreamOpen(r)
    \/ \E r \in DOMAIN req : StreamReadFrame(r)
    \/ \E r \in DOMAIN req : StreamResume(r)
    \/ \E r \in DOMAIN req : StreamFlush(r)
    \/ \E r \in DOMAIN req : StreamFlushResume(r)
    \/ \E r \in DOMAIN req : StreamWriteMetadata(r)
    \/ \E r \in DOMAIN req : StreamFinally(r)
    \/ \E w \in Workers : WorkerTake(w)
    \/ \E w \in Workers : WorkerFinish(w)
    \/ \E r \in DOMAIN req : FastWriteTemp(r)
    \/ \E r \in DOMAIN req : FastOpen(r)
    \/ \E r \in DOMAIN req : FastReadFrame(r)
    \/ \E r \in DOMAIN req : FastWriteMetadata(r)
    \/ \E r \in DOMAIN req : FastFinally(r)

Spec == Init /\ [][Next]_vars

---------------------------------------------------------------------------
(* Reading a request's outcome *)

\* the zip buffer has been handed back to the caller
Returned(r) == req[r].pc = "done" /\ req[r].result = "archive"

\* every frame the container announces can be decoded
AllDecodable(r) == req[r].in.readable = req[r].in.total_frames

IsFrameEntry(e) == e.filename.stem = "frame_"

FrameEntries(r) == SelectSeq(req[r].zipf, IsFrameEntry)

\* which frames of the video the archive's frame entries are pictures of
KeptSources(r) ==
    LET fe == FrameEntries(r) IN {fe[i].data.jpeg_of : i \in 1..Len(fe)}

\* the content of the archive's last entry
LastEntry(r) == req[r].zipf[Len(req[r].zipf)]

CeilDiv(a, b) == (a + b - 1) \div b

Min(a, b) == IF a <= b THEN a ELSE b

---------------------------------------------------------------------------
(* C1 *)

\* C1: in exhaustive mode, for skip_frames = k and a video whose T announced
\* frames all decode, the kept frames are exactly the multiples of k+1 below
\* T; with k = 0 every frame is kept, metadata extracted_frames equals
\* total_frames and the entries are numbered 0..T-1 without a gap.
C1_StreamKeptSet ==
    \A r \in DOMAIN req :
        (req[r].in.mode = "stream" /\ Returned(r) /\ AllDecodable(r)) =>
            LET T == req[r].in.total_frames
                k == req[r].in.skip_frames
                fe == FrameEntries(r)
            IN  /\ KeptSources(r) = {m * (k + 1) : m \in 0..T} \cap (0..(T - 1))
                /\ k = 0 =>
                    /\ LastEntry(r).data.extracted_frames = LastEntry(r).data.total_frames
                    /\ Len(fe) = T
                    /\ \A i \in 1..T : /\ fe[i].filename = FrameName(i - 1, 6)
                                       /\ fe[i].data.jpeg_of = i - 1

C1_Witness ==
    \E r \in DOMAIN req :
        /\ req[r].in.mode = "stream" /\ Returned(r) /\ AllDecodable(r)
        /\ req[r].in.skip_frames = 2
        /\ req[r].in.total_frames > batch_size
        /\ Len(FrameEntries(r)) > 1

---------------------------------------------------------------------------
(* C2 *)

\* C2: in fast mode the skip factor is max(1, T // M), the kept count never
\* exceeds M, and a run over a video whose T frames all decode ends with
\* extracted_frames = min(M, ceil(T / skip_factor)).
C2_FastCount ==
    \A r \in DOMAIN req :
        req[r].in.mode = "fast" =>
            LET T == req[r].in.total_frames
                M == req[r].in.max_frames
                sf == IF T \div M >= 1 THEN T \div M ELSE 1
            IN  /\ req[r].extracted_count <= M
                /\ req[r].pc \in {"loop", "metadata"} => req[r].skip_factor = sf
                /\ (Returned(r) /\ AllDecodable(r)) =>
                    /\ req[r].skip_factor = sf
                    /\ LastEntry(r).data.extracted_frames = Min(M, CeilDiv(T, sf))
                    /\ Len(FrameEntries(r)) = Min(M, CeilDiv(T, sf))

C2_Witness ==
    \E r \in DOMAIN req :
        /\ req[r].in.mode = "fast" /\ Returned(r) /\ AllDecodable(r)
        /\ req[r].skip_factor = 2
        /\ req[r].in.total_frames % req[r].in.max_frames # 0
        /\ LastEntry(r).data.extracted_frames = req[r].in.max_frames

---------------------------------------------------------------------------
(* C3 *)

\* C3: after an exhaustive run with n kept frames the archive's frame
\* entries are frame_000000.jpg .. frame_(n-1), in this order, before any
\* other entry, each the picture of a different kept frame in source order,
\* whatever n is relative to the batch size and whichever workers ran the
\* batches.
C3_StreamArchiveOrder ==
    \A r \in DOMAIN req :
        (req[r].in.mode = "stream" /\ Returned(r)) =>
            LET n == req[r].extracted_count
                k == req[r].in.skip_frames
                z == req[r].zipf
            IN  /\ Len(FrameEntries(r)) = n
                /\ Len(z) = n + 1
                /\ \A i \in 1..n :
                    /\ z[i].filename = [stem |-> "frame_",
                                        digits |-> ZeroPad(i - 1, 6),
                                        ext |-> ".jpg"]
                    /\ z[i].data.jpeg_of = (i - 1) * (k + 1)
                /\ \A i, j \in 1..n :
                    i < j => /\ z[i].data.jpeg_of < z[j].data.jpeg_of
                             /\ z[i].filename # z[j].filename

C3_Witness ==
    \E r \in DOMAIN req :
        /\ req[r].in.mode = "stream" /\ Returned(r)
        /\ req[r].extracted_count > 2 * batch_size
        /\ req[r].extracted_count % batch_size # 0

---------------------------------------------------------------------------
(* C4 *)

\* C4: every archive returned, in either mode, holds exactly one
\* metadata.json entry, it is the last entry, and the number of entries is
\* metadata extracted_frames + 1, also when no frame is kept.
C4_MetadataLast ==
    \A r \in DOMAIN req :
        Returned(r) =>
            LET z == req[r].zipf IN
            /\ Len(z) >= 1
            /\ z[Len(z)].filename = MetadataName
            /\ Cardinality({i \in 1..Len(z) : z[i].filename = MetadataName}) = 1
            /\ Len(z) = z[Len(z)].data.extracted_frames + 1
            /\ req[r].zip_closed

C4_Witness ==
    \E r \in DOMAIN req :
        /\ Returned(r)
        /\ req[r].in.mode = "fast"
        /\ req[r].in.total_frames > 0
        /\ req[r].in.readable = 0
        /\ Len(req[r].zipf) = 1

---------------------------------------------------------------------------
(* C5 *)

\* C5: the temporary copy of the upload is removed on every exit path of a
\* request, in both modes; when the video cannot be opened the request ends
\* with HTTP 400, no archive, and the temporary file already removed.
C5_TempRemovedOnEveryExit ==
    \A r \in DOMAIN req :
        req[r].pc = "done" =>
            /\ req[r].temp = "removed"
            /\ (req[r].in.write_ok /\ ~req[r].in.opens) => req[r].result = "http400"

---------------------------------------------------------------------------
(* C6 *)

\* C6: in fast mode, once max_frames frames have been kept no further
\* cap.read() is issued, even while source frames remain.
C6_NoReadAfterCap ==
    [][\A r \in DOMAIN req :
          (/\ req[r].in.mode = "fast"
           /\ req[r].extracted_count = req[r].in.max_frames
           /\ req[r].reads < req[r].in.readable)
          => req'[r].reads = req[r].reads]_vars

---------------------------------------------------------------------------
(* C7 *)

\* C7 as stated: the metadata.json of an exhaustive run lists, per kept
\* frame, the timestamp source_index / fps (0.0 when fps <= 0).
C7_StreamTimestamps ==
    \A r \in DOMAIN req :
        (req[r].in.mode = "stream" /\ Returned(r) /\ AllDecodable(r)) =>
            LET m == LastEntry(r).data
                fe == FrameEntries(r)
                fps == req[r].in.fps
            IN  /\ "frames" \in DOMAIN m
                /\ Len(m.frames) = Len(fe)
                /\ \A i \in 1..Len(fe) :
                    IF fps > 0
                       THEN m.frames[i].timestamp.num * fps
                                = m.frames[i].timestamp.den * fe[i].data.jpeg_of
                       ELSE m.frames[i].timestamp.num = 0

\* C7 (amended): the metadata.json of an exhaustive run has the fields fps,
\* total_frames, extracted_frames, width, height and skip_frames and no
\* per-frame record or timestamp; extracted_frames is the number of frame
\* entries; a 100-frame, 10 fps video with skip_frames = 1 gives the kept
\* frames {0,2,...,98}, 50 frame entries and extracted_frames = 50.
C7_StreamMetadataFields ==
    \A r \in DOMAIN req :
        (req[r].in.mode = "stream" /\ Returned(r)) =>
            LET m == LastEntry(r).data
                in == req[r].in
            IN  /\ DOMAIN m = {"fps", "total_frames", "extracted_frames",
                               "width", "height", "skip_frames"}
                /\ m.fps = in.fps /\ m.total_frames = in.total_frames
                /\ m.skip_frames = in.skip_frames
                /\ m.extracted_frames = Len(FrameEntries(r))
                /\ (/\ in.total_frames = 100 /\ in.readable = 100
                    /\ in.fps = 10 /\ in.skip_frames = 1) =>
                        /\ KeptSources(r) = {2 * x : x \in 0..49}
                        /\ Len(FrameEntries(r)) = 50
                        /\ m.extracted_frames = 50

C7_Witness ==
    \E r \in DOMAIN req :
        /\ req[r].in.mode = "stream" /\ Returned(r)
        /\ req[r].in.total_frames = 100 /\ req[r].in.readable = 100
        /\ req[r].in.fps = 10 /\ req[r].in.skip_frames = 1

---------------------------------------------------------------------------
(* C8 *)

\* C8: a cap.read() that fails after j frames were decoded ends the stream
\* normally in both modes: the request returns its archive, which holds the
\* frames kept among the first j (a partly filled last batch included), and
\* metadata extracted_frames is their number.
C8_ReadFailureIsEndOfStream ==
    \A r \in DOMAIN req :
        (/\ req[r].pc = "done"
         /\ req[r].in.write_ok /\ req[r].in.opens
         /\ req[r].in.readable < req[r].in.total_frames
         /\ req[r].in.bad_frame = NoFrame) =>
            LET in == req[r].in
                j == in.readable
                sf == IF in.total_frames \div in.max_frames >= 1
                         THEN in.total_frames \div in.max_frames ELSE 1
                stride == IF in.mode = "stream" THEN in.skip_frames + 1 ELSE sf
                n == IF in.mode = "stream"
                        THEN CeilDiv(j, stride)
                        ELSE Min(in.max_frames, CeilDiv(j, stride))
                z == req[r].zipf
            IN  /\ req[r].result = "archive"
                /\ Len(z) = n + 1
                /\ \A i \in 1..n : /\ IsFrameEntry(z[i])
                                   /\ z[i].data.jpeg_of = (i - 1) * stride
                                   /\ z[i].data.valid
                /\ z[n + 1].filename = MetadataName
                /\ z[n + 1].data.extracted_frames = n

C8_Witness ==
    \E r \in DOMAIN req :
        /\ req[r].in.mode = "stream" /\ Returned(r)
        /\ req[r].in.readable < req[r].in.total_frames
        /\ req[r].in.readable > batch_size
        /\ req[r].frame_batch # <<>>
        /\ Len(req[r].frame_batch) < batch_size

---------------------------------------------------------------------------
(* C9 *)

\* C9: when the encoding of a kept frame fails the request fails; no archive
\* is returned that holds an entry for the frame whose encoding failed.
C9_EncodeFailureFailsRequest ==
    \A r \in DOMAIN req :
        Returned(r) =>
            \A i \in 1..Len(req[r].zipf) :
                IsFrameEntry(req[r].zipf[i]) => req[r].zipf[i].data.valid

---------------------------------------------------------------------------
(* C10 *)

\* C10: in fast mode metadata.json lists extracted_frames records in order;
\* record i has frame_index i, the filename of the i-th frame entry
\* (frame_%04d of i) and the timestamp (i * skip_factor) / fps (0.0 when
\* fps <= 0), i * skip_factor being the source index of the i-th kept
\* frame; 1000 frames with max_frames = 100 give skip_factor 10,
\* extracted_frames 100 and frames[5].timestamp = 50 / fps.
C10_FastFrameRecords ==
    \A r \in DOMAIN req :
        (req[r].in.mode = "fast" /\ Returned(r)) =>
            LET m == LastEntry(r).data
                in == req[r].in
                z == req[r].zipf
                n == m.extracted_frames
                sf == IF in.total_frames \div in.max_frames >= 1
                         THEN in.total_frames \div in.max_frames ELSE 1
            IN  /\ Len(m.frames) = n
                /\ Len(FrameEntries(r)) = n
                /\ \A i \in 0..(n - 1) :
                    LET rec == m.frames[i + 1] IN
                    /\ rec.frame_index = i
                    /\ rec.filename = z[i + 1].filename
                    /\ rec.filename = [stem |-> "frame_",
                                       digits |-> ZeroPad(i, 4), ext |-> ".jpg"]
                    /\ z[i + 1].data.jpeg_of = i * sf
                    /\ IF in.fps > 0
                          THEN /\ rec.timestamp.den > 0
                               /\ rec.timestamp.num * in.fps
                                    = rec.timestamp.den * (i * sf)
                          ELSE rec.timestamp = [num |-> 0, den |-> 1]
                /\ (in.total_frames = 1000 /\ in.readable = 1000 /\ in.max_frames = 100) =>
                        /\ req[r].skip_factor = 10
                        /\ n = 100
                        /\ m.frames[6].timestamp.num * in.fps
                             = m.frames[6].timestamp.den * 50

C10_Witness ==
    \E r \in DOMAIN req :
        /\ req[r].in.mode = "fast" /\ Returned(r)
        /\ req[r].in.total_frames = 1000 /\ req[r].in.max_frames = 100
        /\ req[r].in.fps > 0
        /\ Len(LastEntry(r).data.frames) = 100

---------------------------------------------------------------------------
(* Simultaneous exhaustive requests on the shared executor *)

\* the videos of the simultaneous requests: shorter than a batch, or one full
\* batch and a tail
PoolFrameCounts ==
    (0..MaxPoolTail) \cup (batch_size..(batch_size + MaxPoolTail))

PoolInputs ==
    { Input("stream", T, T, 10, k, 100, NoFrame, "none", TRUE, TRUE) :
        T \in PoolFrameCounts, k \in 0..1 }

PoolSmallInputs ==
    { Input("stream", T, T, 10, 0, 100, NoFrame, "none", TRUE, TRUE) :
        T \in 0..MaxPoolTail }

\* request r uploads its own video, video r
InitPool ==
    /\ \/ \E in1, in2 \in PoolInputs :
            req = [r \in {1, 2} |->
                     NewRequest([(IF r = 1 THEN in1 ELSE in2) EXCEPT !.video = r])]
       \/ \E in1, in2, in3 \in PoolSmallInputs :
            req = [r \in {1, 2, 3} |->
                     NewRequest([(IF r = 1 THEN in1 ELSE IF r = 2 THEN in2 ELSE in3)
                                    EXCEPT !.video = r])]
    /\ executor = [queue |-> <<>>, running |-> [w \in Workers |-> NoTask]]

NextPool ==
    \/ \E r \in DOMAIN req : StreamWriteTemp(r)
    \/ \E r \in DOMAIN req : StreamOpen(r)
    \/ \E r \in DOMAIN req : StreamReadFrame(r)
    \/ \E r \in DOMAIN req : StreamResume(r)
    \/ \E r \in DOMAIN req : StreamFlush(r)
    \/ \E r \in DOMAIN req : StreamFlushResume(r)
    \/ \E r \in DOMAIN req : StreamWriteMetadata(r)
    \/ \E r \in DOMAIN req : StreamFinally(r)
    \/ \E w \in Workers : WorkerTake(w)
    \/ \E w \in Workers : WorkerFinish(w)

SpecPool == InitPool /\ [][NextPool]_vars

\* the batches of request r the executor holds, queued or running
PoolTasksOf(r) ==
    Cardinality({i \in 1..Len(executor.queue) : executor.queue[i].r = r})
    + Cardinality({w \in Workers : executor.running[w].r = r})

\* the archive an exhaustive request with input `in` returns when it runs
\* alone (C1, C3, C7): its kept frames in kept order, then metadata.json
SoloArchive(in) ==
    LET n == CeilDiv(in.readable, in.skip_frames + 1) IN
    [i \in 1..(n + 1) |->
        IF i <= n
           THEN [filename |-> [stem |-> "frame_", digits |-> ZeroPad(i - 1, 6),
                               ext |-> ".jpg"],
                 data |-> [video |-> in.video,
                           jpeg_of |-> (i - 1) * (in.skip_frames + 1),
                           valid |-> TRUE]]
           ELSE [filename |-> [stem |-> "metadata", digits |-> <<>>, ext |-> ".json"],
                 data |-> [fps |-> in.fps, total_frames |-> in.total_frames,
                           extracted_frames |-> n,
                           width |-> in.width, height |-> in.height,
                           skip_frames |-> in.skip_frames]]]

---------------------------------------------------------------------------
(* C11 *)

\* C11: in every interleaving of simultaneous exhaustive requests on the
\* shared 4-worker pool, a request has at most one batch in the pool at a
\* time (exactly one while it awaits), it issues no cap.read() and writes
\* nothing to its archive while that batch is in the pool, every entry it
\* has written is a picture from its own video, and it ends with the
\* archive it returns when it runs alone.
C11_SharedPoolIsolation ==
    /\ [](\A r \in DOMAIN req :
            /\ PoolTasksOf(r) <= 1
            /\ PoolTasksOf(r) = 1 <=> req[r].future = "pending"
            /\ req[r].future # "none" <=> req[r].pc \in {"await", "await_flush"}
            /\ \A i \in 1..Len(req[r].zipf) :
                  IsFrameEntry(req[r].zipf[i]) => req[r].zipf[i].data.video = r
            /\ req[r].pc = "done" =>
                  /\ req[r].result = "archive"
                  /\ req[r].zipf = SoloArchive(req[r].in))
    /\ [][\A r \in DOMAIN req :
            req[r].future # "none" =>
                \/ /\ req'[r].reads = req[r].reads
                   /\ req'[r].zipf = req[r].zipf
                   /\ req'[r].frame_batch = req[r].frame_batch
                \/ /\ req[r].future = "done"
                   /\ req'[r].future = "none"
                   /\ req'[r].reads = req[r].reads
                   /\ req'[r].zipf = req[r].zipf \o req[r].processed_frames]_vars

\* one request has returned an archive of more than one batch while another,
\* which has already written a batch, has its next batch in the pool
C11_Witness ==
    \E r1, r2 \in DOMAIN req :
        /\ r1 # r2
        /\ Returned(r1)
        /\ req[r1].extracted_count > batch_size
        /\ req[r1].zipf = SoloArchive(req[r1].in)
        /\ req[r2].future = "pending"
        /\ req[r2].zipf # <<>>
        /\ PoolTasksOf(r2) = 1

====
